---- MODULE Spec2Model ----
\* A model of task-tracker-cli.py: a command-line task tracker that keeps its
\* tasks in ./tasks.json.  The state is the content of the three files the
\* program touches, the wall clock, a record of the last invocation, and, for
\* invocations that overlap, where each of them stands (race).
EXTENDS Integers, Sequences, FiniteSets

VARIABLES fs, clock, last, assigned, pc, pending, race

vars == <<fs, clock, last, assigned, pc, pending, race>>

----------------------------------------------------------------------------
\* Bounds of the model.

\* The store holds at most MaxTasks tasks.
MaxTasks == 2
\* At most MaxAdds successful add invocations are followed.
MaxAdds == 3
\* The clock (seconds, as now_iso reads it) runs from 0 to MaxClock.
MaxClock == 1

----------------------------------------------------------------------------
\* Paths.  A path is its stem and its suffix, so that Path.with_suffix can
\* replace the suffix as pathlib does.

DB_FILENAME == [stem |-> "tasks", suffix |-> ".json"]

VALID_STATUSES == {"todo", "in-progress", "done"}

db_path == DB_FILENAME

with_suffix(path, suffix) == [stem |-> path.stem, suffix |-> suffix]

BAK == with_suffix(db_path, ".json.bak")
TMP == with_suffix(db_path, ".json.tmp")

Paths == {db_path, BAK, TMP}

\* A file is absent, or present with a text: a sequence of JSON tokens.
Absent == [exists |-> FALSE, text |-> <<>>]
File(text) == [exists |-> TRUE, text |-> text]

----------------------------------------------------------------------------
\* JSON texts.  A text is a sequence of tokens; json_dump writes a list of
\* tasks as "[" obj "," obj ... "]", json_load parses a text and fails on
\* anything that is not one complete JSON value.

LB == [t |-> "["]
RB == [t |-> "]"]
Comma == [t |-> ","]
Obj(v) == [t |-> "obj", v |-> v]
Num(n) == [t |-> "num", n |-> n]
Junk(n) == [t |-> "junk", n |-> n]

IsValue(tok) == tok.t \in {"obj", "num"}
Val(tok) == IF tok.t = "obj" THEN tok.v ELSE tok.n

RECURSIVE dump_elems(_)
dump_elems(tasks) ==
    IF Len(tasks) = 0 THEN <<>>
    ELSE IF Len(tasks) = 1 THEN <<Obj(tasks[1])>>
    ELSE <<Obj(tasks[1]), Comma>> \o dump_elems(Tail(tasks))

json_dump(tasks) == <<LB>> \o dump_elems(tasks) \o <<RB>>

JsonError == [ok |-> FALSE, isList |-> FALSE, val |-> <<>>]

\* The elements of an array from position i on, up to the closing bracket,
\* which must be the last token of the text.
RECURSIVE parse_elems(_, _)
parse_elems(text, i) ==
    IF i + 1 > Len(text) \/ ~IsValue(text[i]) THEN JsonError
    ELSE IF text[i + 1] = RB
         THEN IF i + 1 = Len(text)
              THEN [ok |-> TRUE, isList |-> TRUE, val |-> <<Val(text[i])>>]
              ELSE JsonError
    ELSE IF text[i + 1] = Comma
         THEN LET r == parse_elems(text, i + 2) IN
              IF r.ok
              THEN [ok |-> TRUE, isList |-> TRUE, val |-> <<Val(text[i])>> \o r.val]
              ELSE JsonError
    ELSE JsonError

json_load(text) ==
    IF Len(text) = 0 THEN JsonError
    ELSE IF text[1] = LB
         THEN IF Len(text) = 2 /\ text[2] = RB
              THEN [ok |-> TRUE, isList |-> TRUE, val |-> <<>>]
              ELSE parse_elems(text, 2)
    ELSE IF Len(text) = 1 /\ IsValue(text[1])
         THEN [ok |-> TRUE, isList |-> FALSE, val |-> <<>>]
    ELSE JsonError

----------------------------------------------------------------------------
\* The running invocation: the files, the file operations done so far, the
\* two output streams and the exit status (0 unless sys.exit sets it).

Start(files) == [fs |-> files, io |-> <<>>, out |-> <<>>, err |-> <<>>, exit |-> 0]

Io(st, op) == [st EXCEPT !.io = Append(@, op)]
Stdout(st, line) == [st EXCEPT !.out = Append(@, line)]
Stderr(st, line) == [st EXCEPT !.err = Append(@, line)]
sys_exit(st, code) == [st EXCEPT !.exit = code]

Msg(m) == [msg |-> m]
MsgId(m, tid) == [msg |-> m, id |-> tid]

\* path.rename(backup): the target is replaced when it exists.
rename(st, path, backup) ==
    Io([st EXCEPT !.fs = [@ EXCEPT ![backup] = st.fs[path], ![path] = Absent]],
       "rename")

\* isinstance(data, list) is false: a warning, nothing on disk changes.
load_not_a_list_renamed(st, path) ==
    [tasks |-> <<>>,
     st |-> Stderr(rename(st, path, with_suffix(path, ".json.bak")), Msg("warn-not-a-list"))]

load_not_a_list(st, path) ==
    [tasks |-> <<>>, st |-> Stderr(st, Msg("warn-not-a-list"))]

load_corrupt_no_backup(st, path, renameOk) ==
    [tasks |-> <<>>, st |-> Stderr(Io(st, "rename-failed"), Msg("warn-corrupt-no-backup"))]

\* json.JSONDecodeError: the file is renamed to the backup; when the rename
\* raises, the file stays where it is.
load_corrupt(st, path, renameOk) ==
    LET backup == with_suffix(path, ".json.bak") IN
    IF renameOk
    THEN [tasks |-> <<>>,
          st |-> Stderr(rename(st, path, backup), Msg("warn-corrupt-backed-up"))]
    ELSE [tasks |-> <<>>,
          st |-> Stderr(Io(st, "rename-failed"), Msg("warn-corrupt-no-backup"))]

load_tasks(st, env) ==
    LET path == db_path
        st1 == Io(st, "exists") IN
    IF ~st.fs[path].exists THEN [tasks |-> <<>>, st |-> st1]
    ELSE LET data == json_load(st.fs[path].text)
             st2 == Io(st1, "read") IN
         IF data.ok
         THEN IF data.isList
              THEN [tasks |-> data.val, st |-> st2]
              ELSE load_not_a_list(st2, path)
         ELSE load_corrupt(st2, path, env.renameOk)

\* save_tasks, step by step: the temporary path, tmp.open("w"), json.dump
\* (k tokens written so far), os.replace.
save_tmp_in_place(path) == path

save_tmp(path) == with_suffix(path, ".json.tmp")

save_open(st) ==
    Io([st EXCEPT !.fs = [@ EXCEPT ![save_tmp(db_path)] = File(<<>>)]], "open-tmp")

save_write(st, tasks, k) ==
    Io([st EXCEPT !.fs = [@ EXCEPT ![save_tmp(db_path)] =
                               File(SubSeq(json_dump(tasks), 1, k))]], "write")

\* os.replace(tmp, path); replacing a file by itself changes nothing.
save_replace(st) ==
    LET tmp == save_tmp(db_path)
        path == db_path IN
    IF tmp = path THEN Io(st, "replace")
    ELSE Io([st EXCEPT !.fs = [@ EXCEPT ![path] = st.fs[tmp], ![tmp] = Absent]],
            "replace")

save_tasks(st, tasks) ==
    save_replace(save_write(save_open(st), tasks, Len(json_dump(tasks))))

----------------------------------------------------------------------------
\* The task model.

Max(S) == CHOOSE x \in S : \A y \in S : y <= x

Get(t, key, default) == IF key \in DOMAIN t THEN t[key] ELSE default

next_id_len(tasks) == Len(tasks) + 1

next_id(tasks) ==
    IF Len(tasks) > 0
    THEN Max({Get(tasks[i], "id", 0) : i \in 1..Len(tasks)} \cup {0}) + 1
    ELSE 1

\* print_task: the task line, then the description when it is not empty.
print_task(st, task) ==
    LET st1 == Stdout(st, [msg |-> "task", task |-> task]) IN
    IF Get(task, "description", "") # ""
    THEN Stdout(st1, [msg |-> "desc", text |-> task.description])
    ELSE st1

find_task_first(tasks, tid) ==
    IF \E i \in 1..Len(tasks) : Get(tasks[i], "id", 0) = tid THEN 1 ELSE 0

\* find_task: the position of the first task with this id, 0 for None.
find_task(tasks, tid) ==
    IF \E i \in 1..Len(tasks) : Get(tasks[i], "id", 0) = tid
    THEN CHOOSE i \in 1..Len(tasks) :
            /\ Get(tasks[i], "id", 0) = tid
            /\ \A j \in 1..(i - 1) : Get(tasks[j], "id", 0) # tid
    ELSE 0

\* int(value) over the id arguments of the model: "02" and "+1" are
\* integers in Python, "x" and "1.5" raise ValueError.
IntTokens == {"1", "2", "3", "02", "+1"}

int(value) ==
    CASE value = "1" -> 1
      [] value = "2" -> 2
      [] value = "3" -> 3
      [] value = "02" -> 2
      [] value = "+1" -> 1

parse_int(st, value) ==
    IF value \in IntTokens
    THEN [ok |-> TRUE, n |-> int(value), st |-> st]
    ELSE [ok |-> FALSE, n |-> 0,
          st |-> sys_exit(Stderr(st, Msg("error-id-must-be-integer")), 1)]

\* str.lower over the tokens of the model.
lower(s) ==
    CASE s = "ADD" -> "add"
      [] s = "Delete" -> "delete"
      [] s = "HELP" -> "help"
      [] s = "DONE" -> "done"
      [] s = "All" -> "all"
      [] OTHER -> s

Fail(st, m) == sys_exit(Stderr(st, Msg(m)), 1)

now_iso_epoch(env, k) == 0

\* now_iso: the k-th reading of the clock in one invocation.
now_iso(env, k) == IF k = 1 THEN env.now ELSE env.now2

----------------------------------------------------------------------------
\* The commands.  A mutating command is its part up to the call of
\* save_tasks (X_prepare: the state then, whether it goes on to save, the
\* list to save and the task to print) followed by the save and the
\* confirmation (finish).

NoTask == [id |-> 0, title |-> "", description |-> "", status |-> "",
           created_at |-> 0, updated_at |-> 0]

NoSave(st) == [save |-> FALSE, st |-> st, tasks |-> <<>>, note |-> MsgId("none", 0),
               task |-> NoTask]

\* The confirmation printed after the save, with the task unless deleted.
confirm(st, p) ==
    LET st1 == Stdout(st, p.note) IN
    IF p.note.msg = "deleted" THEN st1 ELSE print_task(st1, p.task)

finish(p) ==
    IF ~p.save THEN p.st ELSE confirm(save_tasks(p.st, p.tasks), p)

cmd_add_prepare(args, st, env) ==
    IF Len(args) < 2 THEN NoSave(Fail(st, "usage-add"))
    ELSE LET title == args[2]
             description == IF Len(args) >= 3 THEN args[3] ELSE ""
             l == load_tasks(st, env)
             tid == next_id(l.tasks)
             task == [id |-> tid, title |-> title, description |-> description,
                      status |-> "todo", created_at |-> now_iso(env, 1),
                      updated_at |-> now_iso(env, 2)]
         IN [save |-> TRUE, st |-> l.st, tasks |-> Append(l.tasks, task),
             note |-> MsgId("added", tid), task |-> task]

cmd_add(args, st, env) == finish(cmd_add_prepare(args, st, env))

cmd_update_prepare_recreate(args, st, env) ==
    IF Len(args) < 4 THEN NoSave(Fail(st, "usage-update"))
    ELSE LET p == parse_int(st, args[2]) IN
         IF ~p.ok THEN NoSave(p.st)
         ELSE LET tid == p.n
                  l == load_tasks(st, env)
                  i == find_task(l.tasks, tid)
              IN IF i = 0 THEN NoSave(Fail(l.st, "error-not-found"))
                 ELSE LET task == [l.tasks[i] EXCEPT !.title = args[3],
                                                     !.description = args[4],
                                                     !.created_at = now_iso(env, 1),
                                                     !.updated_at = now_iso(env, 1)]
                      IN [save |-> TRUE, st |-> l.st,
                          tasks |-> [l.tasks EXCEPT ![i] = task],
                          note |-> MsgId("updated", tid), task |-> task]

cmd_update_prepare(args, st, env) ==
    IF Len(args) < 4 THEN NoSave(Fail(st, "usage-update"))
    ELSE LET p == parse_int(st, args[2]) IN
         IF ~p.ok THEN NoSave(p.st)
         ELSE LET tid == p.n
                  title == args[3]
                  description == IF Len(args) >= 4 THEN args[4] ELSE ""
                  l == load_tasks(st, env)
                  i == find_task(l.tasks, tid)
              IN IF i = 0 THEN NoSave(Fail(l.st, "error-not-found"))
                 ELSE LET task == [l.tasks[i] EXCEPT !.title = title,
                                                     !.description = description,
                                                     !.updated_at = now_iso(env, 1)]
                      IN [save |-> TRUE, st |-> l.st,
                          tasks |-> [l.tasks EXCEPT ![i] = task],
                          note |-> MsgId("updated", tid), task |-> task]

cmd_update(args, st, env) == finish(cmd_update_prepare(args, st, env))

cmd_delete_prepare_unchecked(args, st, env) ==
    IF Len(args) < 2 THEN NoSave(Fail(st, "usage-delete"))
    ELSE LET p == parse_int(st, args[2]) IN
         IF ~p.ok THEN NoSave(p.st)
         ELSE LET tid == p.n
                  l == load_tasks(st, env)
                  Keep(t) == Get(t, "id", 0) # tid
              IN [save |-> TRUE, st |-> l.st, tasks |-> SelectSeq(l.tasks, Keep),
                  note |-> MsgId("deleted", tid), task |-> NoTask]

cmd_delete_prepare(args, st, env) ==
    IF Len(args) < 2 THEN NoSave(Fail(st, "usage-delete"))
    ELSE LET p == parse_int(st, args[2]) IN
         IF ~p.ok THEN NoSave(p.st)
         ELSE LET tid == p.n
                  l == load_tasks(st, env)
                  before == Len(l.tasks)
                  Keep(t) == Get(t, "id", 0) # tid
                  tasks == SelectSeq(l.tasks, Keep)
              IN IF Len(tasks) = before THEN NoSave(Fail(l.st, "error-not-found"))
                 ELSE [save |-> TRUE, st |-> l.st, tasks |-> tasks,
                       note |-> MsgId("deleted", tid), task |-> NoTask]

cmd_delete(args, st, env) == finish(cmd_delete_prepare(args, st, env))

cmd_mark_prepare_unchecked(args, st, env) ==
    IF Len(args) < 3 THEN NoSave(Fail(st, "usage-mark"))
    ELSE LET p == parse_int(st, args[2]) IN
         IF ~p.ok THEN NoSave(p.st)
         ELSE LET tid == p.n
                  status == lower(args[3])
                  l == load_tasks(st, env)
                  i == find_task(l.tasks, tid)
              IN IF i = 0 THEN NoSave(Fail(l.st, "error-not-found"))
                 ELSE LET task == [l.tasks[i] EXCEPT !.status = status,
                                                    !.updated_at = now_iso(env, 1)]
                      IN [save |-> TRUE, st |-> l.st,
                          tasks |-> [l.tasks EXCEPT ![i] = task],
                          note |-> MsgId("marked", tid), task |-> task]

cmd_mark_prepare_raw(args, st, env) ==
    IF Len(args) < 3 THEN NoSave(Fail(st, "usage-mark"))
    ELSE LET p == parse_int(st, args[2]) IN
         IF ~p.ok THEN NoSave(p.st)
         ELSE IF lower(args[3]) \notin VALID_STATUSES
              THEN NoSave(Fail(st, "error-status"))
              ELSE LET l == load_tasks(st, env)
                       i == find_task(l.tasks, p.n)
                   IN IF i = 0 THEN NoSave(Fail(l.st, "error-not-found"))
                      ELSE LET task == [l.tasks[i] EXCEPT !.status = args[3],
                                                         !.updated_at = now_iso(env, 1)]
                           IN [save |-> TRUE, st |-> l.st,
                               tasks |-> [l.tasks EXCEPT ![i] = task],
                               note |-> MsgId("marked", p.n), task |-> task]

cmd_mark_prepare(args, st, env) ==
    IF Len(args) < 3 THEN NoSave(Fail(st, "usage-mark"))
    ELSE LET p == parse_int(st, args[2]) IN
         IF ~p.ok THEN NoSave(p.st)
         ELSE LET tid == p.n
                  status == lower(args[3])
              IN IF status \notin VALID_STATUSES
                 THEN NoSave(Fail(st, "error-status"))
                 ELSE LET l == load_tasks(st, env)
                          i == find_task(l.tasks, tid)
                      IN IF i = 0 THEN NoSave(Fail(l.st, "error-not-found"))
                         ELSE LET task == [l.tasks[i] EXCEPT !.status = status,
                                                            !.updated_at = now_iso(env, 1)]
                              IN [save |-> TRUE, st |-> l.st,
                                  tasks |-> [l.tasks EXCEPT ![i] = task],
                                  note |-> MsgId("marked", tid), task |-> task]

cmd_mark(args, st, env) == finish(cmd_mark_prepare(args, st, env))

\* The order of Python's string comparison on the three statuses.
StatusRank(s) ==
    CASE s = "done" -> 1
      [] s = "in-progress" -> 2
      [] s = "todo" -> 3
      [] OTHER -> 4

\* The sort key (status, id), compared as tuples.
KeyLess(a, b) ==
    \/ StatusRank(a.status) < StatusRank(b.status)
    \/ /\ StatusRank(a.status) = StatusRank(b.status)
       /\ a.id < b.id

\* sorted(): stable, so x goes after the elements that are not greater.
RECURSIVE insert(_, _)
insert(x, s) ==
    IF Len(s) = 0 THEN <<x>>
    ELSE IF KeyLess(x, s[1]) THEN <<x>> \o s
    ELSE <<s[1]>> \o insert(x, Tail(s))

sorted_unsorted(s) == s

RECURSIVE sorted(_)
sorted(s) ==
    IF Len(s) = 0 THEN <<>>
    ELSE insert(s[Len(s)], sorted(SubSeq(s, 1, Len(s) - 1)))

RECURSIVE print_all(_, _)
print_all(st, tasks) ==
    IF Len(tasks) = 0 THEN st
    ELSE print_all(print_task(st, tasks[1]), Tail(tasks))

cmd_list(args, st, env) ==
    IF Len(args) < 2 THEN Fail(st, "usage-list")
    ELSE LET flt == lower(args[2]) IN
         IF flt # "all" /\ flt \notin VALID_STATUSES THEN Fail(st, "error-filter")
         ELSE LET l == load_tasks(st, env)
                  Match(t) == Get(t, "status", "") = flt
                  tasks == IF flt # "all" THEN SelectSeq(l.tasks, Match) ELSE l.tasks
              IN IF Len(tasks) = 0 THEN Stdout(l.st, Msg("no-tasks"))
                 ELSE print_all(l.st, sorted(tasks))

cmd_details_load_first(args, st, env) ==
    LET l == load_tasks(st, env) IN
    IF Len(args) < 2 THEN Fail(l.st, "usage-details")
    ELSE LET p == parse_int(l.st, args[2]) IN
         IF ~p.ok THEN p.st
         ELSE LET i == find_task(l.tasks, p.n)
              IN IF i = 0 THEN Fail(l.st, "error-not-found")
                 ELSE print_task(l.st, l.tasks[i])

cmd_details(args, st, env) ==
    IF Len(args) < 2 THEN Fail(st, "usage-details")
    ELSE LET p == parse_int(st, args[2]) IN
         IF ~p.ok THEN p.st
         ELSE LET l == load_tasks(st, env)
                  i == find_task(l.tasks, p.n)
              IN IF i = 0 THEN Fail(l.st, "error-not-found")
                 ELSE print_task(l.st, l.tasks[i])

print_help(st) == Stdout(st, Msg("help"))

\* main: sys_argv[1] is the script's name, the command is the next token.
main(sys_argv, st, env) ==
    IF Len(sys_argv) < 2 THEN sys_exit(print_help(st), 0)
    ELSE LET cmd == lower(sys_argv[2])
             args == Tail(sys_argv)
         IN CASE cmd = "add" -> cmd_add(args, st, env)
              [] cmd = "update" -> cmd_update(args, st, env)
              [] cmd = "delete" -> cmd_delete(args, st, env)
              [] cmd = "mark" -> cmd_mark(args, st, env)
              [] cmd = "list" -> cmd_list(args, st, env)
              [] cmd = "details" -> cmd_details(args, st, env)
              [] cmd \in {"help", "-h", "--help"} -> print_help(st)
              [] OTHER -> sys_exit(print_help(Stderr(st, Msg("unknown-command"))), 1)

\* The module's last two lines: run as a script, the module's __name__ is
\* "__main__", and main is called when __name__ equals "_main_".
script_name == "__main__"

run_module(sys_argv, st, env) ==
    IF script_name = "_main_" THEN main(sys_argv, st, env) ELSE st

\* The part of an invocation of main up to the call of save_tasks.
main_prepare(sys_argv, st, env) ==
    IF Len(sys_argv) < 2 THEN NoSave(main(sys_argv, st, env))
    ELSE LET cmd == lower(sys_argv[2])
             args == Tail(sys_argv)
         IN CASE cmd = "add" -> cmd_add_prepare(args, st, env)
              [] cmd = "update" -> cmd_update_prepare(args, st, env)
              [] cmd = "delete" -> cmd_delete_prepare(args, st, env)
              [] cmd = "mark" -> cmd_mark_prepare(args, st, env)
              [] OTHER -> NoSave(main(sys_argv, st, env))

----------------------------------------------------------------------------
\* The inputs of the model: argument vectors (sys.argv without the script's
\* name) with too few, enough and ill-formed arguments, in several cases.

Script == "task-tracker-cli.py"

IdArgs == {"1", "02", "x"}

AddArgs == {<<"add">>, <<"ADD", "a">>, <<"add", "b", "d">>}

UpdateArgs ==
    {<<"update">>, <<"update", "1">>}
        \cup {<<"update", i, "b">> : i \in IdArgs}
        \cup {<<"update", i, "b", "d">> : i \in IdArgs}

DeleteArgs == {<<"delete">>} \cup {<<"Delete", i>> : i \in IdArgs}

StatusArgs == {"todo", "DONE", "bogus"}

MarkArgs ==
    {<<"mark">>, <<"mark", "1">>}
        \cup {<<"mark", i, s>> : i \in IdArgs, s \in StatusArgs}

ListArgs ==
    {<<"list">>} \cup {<<"list", f>> : f \in {"All", "todo", "done", "bogus"}}

DetailsArgs == {<<"details">>} \cup {<<"details", i>> : i \in IdArgs}

HelpArgs == {<<"HELP">>, <<"-h">>, <<"--help">>}

UnknownArgs == {<<"remove", "1">>}

ScriptArgs == {<<"bogus">>, <<"add", "a">>}

----------------------------------------------------------------------------
\* The state machine.  pc is "idle" between invocations and "exited" when
\* an invocation has ended and its exit status and output can be observed
\* (last); Exit returns to the prompt.

Malformed(file) == file.exists /\ ~json_load(file.text).ok

\* The tasks of the store as load_tasks would return them.
StoreTasks(files) ==
    LET d == json_load(files[db_path].text) IN
    IF files[db_path].exists /\ d.ok /\ d.isList THEN d.val ELSE <<>>

Files(db, bak) == [p \in Paths |-> IF p = db_path THEN db ELSE IF p = BAK THEN bak ELSE Absent]

\* The directory before the first invocation: no store or an empty store.
InitialFiles == {Files(Absent, Absent), Files(File(<<LB, RB>>), Absent)}

\* Stores the program did not write: one whose JSON is not a list, one of
\* malformed JSON (with or without a backup of an earlier one).
ForeignFiles ==
    {Files(File(<<Num(42)>>), Absent), Files(File(<<Junk(1)>>), Absent),
     Files(File(<<Junk(1)>>), File(<<Junk(2)>>))}

NoLast == [entry |-> "none", args |-> <<>>, renameOk |-> TRUE, exit |-> 0,
           io |-> <<>>, out |-> <<>>, err |-> <<>>, pre |-> Files(Absent, Absent),
           now |-> 0, now2 |-> 0, killed |-> FALSE]

NoPending == NoSave(Start(Files(Absent, Absent)))

\* The processes that may run at the same time in one directory.
Writers == {1, 2}

\* A file with no name: what an open file refers to once its name has been
\* given to another file, and what a closed file refers to.
Unlinked == [stem |-> "", suffix |-> ""]

\* A process that has not started: no prepared save, no open file.
IdleProc == [pc |-> "idle", p |-> NoPending, at |-> Unlinked, pos |-> 0, exit |-> 0]

\* No invocation overlaps another: nothing read by a reader (seen), nothing
\* replaced.
NoRace == [proc |-> [w \in Writers |-> IdleProc], seen |-> Absent, base |-> Absent,
           replaced |-> <<>>]

InitFrom(stores) ==
    /\ fs \in stores
    /\ clock = 0
    /\ last = NoLast
    /\ assigned = <<>>
    /\ pc = "idle"
    /\ pending = NoPending
    /\ race = NoRace

Init == InitFrom(InitialFiles)

InitAny == InitFrom(InitialFiles \cup ForeignFiles)

\* path.rename can only fail when it is called: on a malformed store.
RenameChoices == IF Malformed(fs[db_path]) THEN BOOLEAN ELSE {TRUE}

\* What is known of an ended invocation: how it was entered, its arguments,
\* whether a rename could succeed and what the clock read, its exit status,
\* file operations and output, the files before it, and whether it was
\* killed before it could end.
Record(entry, args, env, r) ==
    [entry |-> entry, args |-> args, renameOk |-> env.renameOk, exit |-> r.exit,
     io |-> r.io, out |-> r.out, err |-> r.err, pre |-> fs,
     now |-> env.now, now2 |-> env.now2, killed |-> FALSE]

Added(r) == Len(r.out) > 0 /\ r.out[1].msg = "added"

\* One whole invocation of main with the arguments args; tick is the time
\* that passes between the two readings of the clock (add reads it twice).
Invoke(args, tick) ==
    /\ clock + tick <= MaxClock
    /\ \E renameOk \in RenameChoices :
        LET env == [renameOk |-> renameOk, now |-> clock, now2 |-> clock + tick] IN
        \E r \in {main(<<Script>> \o args, Start(fs), env)} :
           /\ Added(r) => Len(assigned) < MaxAdds
           /\ Len(StoreTasks(r.fs)) <= MaxTasks
           /\ fs' = r.fs
           /\ last' = Record("main", args, env, r)
           /\ assigned' = IF Added(r) THEN Append(assigned, r.out[1].id) ELSE assigned
           /\ clock' = clock + tick
           /\ pc' = "exited"
           /\ UNCHANGED <<pending, race>>

NoArgs ==
    /\ pc = "idle"
    /\ Invoke(<<>>, 0)

Add ==
    /\ pc = "idle"
    /\ \E args \in AddArgs, tick \in {0, 1} :
        Invoke(args, IF Len(args) < 2 THEN 0 ELSE tick)

Update ==
    /\ pc = "idle"
    /\ \E args \in UpdateArgs : Invoke(args, 0)

Delete ==
    /\ pc = "idle"
    /\ \E args \in DeleteArgs : Invoke(args, 0)

Mark ==
    /\ pc = "idle"
    /\ \E args \in MarkArgs : Invoke(args, 0)

List ==
    /\ pc = "idle"
    /\ \E args \in ListArgs : Invoke(args, 0)

Details ==
    /\ pc = "idle"
    /\ \E args \in DetailsArgs : Invoke(args, 0)

Help ==
    /\ pc = "idle"
    /\ \E args \in HelpArgs : Invoke(args, 0)

Unknown ==
    /\ pc = "idle"
    /\ \E args \in UnknownArgs : Invoke(args, 0)

\* The file run as a script: python task-tracker-cli.py args.
RunScript ==
    /\ pc = "idle"
    /\ \E args \in ScriptArgs :
        LET env == [renameOk |-> TRUE, now |-> clock, now2 |-> clock] IN
        \E r \in {run_module(<<Script>> \o args, Start(fs), env)} :
           /\ fs' = r.fs
           /\ last' = Record("script", args, env, r)
           /\ pc' = "exited"
           /\ UNCHANGED <<clock, assigned, pending, race>>

\* The invocation is over; the next one starts from the prompt.
Exit ==
    /\ pc = "exited"
    /\ pc' = "idle"
    /\ last' = NoLast
    /\ pending' = NoPending
    /\ UNCHANGED <<fs, clock, assigned, race>>

\* Time passes between invocations.
Tick ==
    /\ pc = "idle"
    /\ clock < MaxClock
    /\ clock' = clock + 1
    /\ UNCHANGED <<fs, last, assigned, pc, pending, race>>

Next ==
    \/ NoArgs
    \/ Add
    \/ Update
    \/ Delete
    \/ Mark
    \/ List
    \/ Details
    \/ Help
    \/ Unknown
    \/ RunScript
    \/ Exit
    \/ Tick

Spec == Init /\ [][Next]_vars

\* The same invocations, also on a store the program did not write.
SpecAny == InitAny /\ [][Next]_vars

----------------------------------------------------------------------------
\* The same invocations with save_tasks taken step by step, and a process
\* that can be killed between any two steps of it.  pc is "open" before
\* tmp.open, "write" while json.dump writes, "replace" before os.replace.

\* The invocations followed step by step: each mutating command, with and
\* without a task to act on, and one that does not save.
CrashArgs ==
    {<<"ADD", "a">>, <<"update", "1", "b", "d">>, <<"Delete", "1">>,
     <<"mark", "1", "DONE">>, <<"list", "All">>}

InSave == pc \in {"open", "write", "replace"}

\* The invocation as it stands in the middle of save_tasks.
Running == [pending.st EXCEPT !.fs = fs, !.io = last.io]

\* An invocation runs up to its call of save_tasks, or to its end when it
\* does not save.
Begin ==
    /\ pc = "idle"
    /\ \E args \in CrashArgs, tick \in {0, 1}, renameOk \in RenameChoices :
        LET env == [renameOk |-> renameOk, now |-> clock, now2 |-> clock + tick] IN
        \E p \in {main_prepare(<<Script>> \o args, Start(fs), env)} :
           /\ clock + tick <= MaxClock
           /\ tick = 1 => p.note.msg = "added"
           /\ p.note.msg = "added" => Len(assigned) < MaxAdds
           /\ Len(p.tasks) <= MaxTasks
           /\ fs' = p.st.fs
           /\ last' = Record("main", args, env, p.st)
           /\ assigned' = IF p.note.msg = "added" THEN Append(assigned, p.note.id)
                          ELSE assigned
           /\ clock' = clock + tick
           /\ pc' = IF p.save THEN "open" ELSE "exited"
           /\ pending' = IF p.save THEN p ELSE pending
           /\ UNCHANGED race

SaveOpen ==
    /\ pc = "open"
    /\ \E st \in {save_open(Running)} :
        /\ fs' = st.fs
        /\ last' = [last EXCEPT !.io = st.io]
    /\ pc' = "write"
    /\ UNCHANGED <<clock, assigned, pending, race>>

\* json.dump writes the next token.
SaveWrite ==
    /\ pc = "write"
    /\ LET k == Len(fs[save_tmp(db_path)].text) + 1
           total == Len(json_dump(pending.tasks)) IN
       /\ k <= total
       /\ \E st \in {save_write(Running, pending.tasks, k)} :
            /\ fs' = st.fs
            /\ last' = [last EXCEPT !.io = st.io]
       /\ pc' = IF k = total THEN "replace" ELSE "write"
    /\ UNCHANGED <<clock, assigned, pending, race>>

SaveReplace ==
    /\ pc = "replace"
    /\ \E st \in {confirm(save_replace(Running), pending)} :
        /\ fs' = st.fs
        /\ last' = [last EXCEPT !.io = st.io, !.out = st.out]
    /\ pc' = "exited"
    /\ UNCHANGED <<clock, assigned, pending, race>>

\* The process is killed inside save_tasks.
Crash ==
    /\ InSave
    /\ pc' = "exited"
    /\ last' = [last EXCEPT !.killed = TRUE]
    /\ UNCHANGED <<fs, clock, assigned, pending, race>>

NextCrash ==
    \/ Begin
    \/ SaveOpen
    \/ SaveWrite
    \/ SaveReplace
    \/ Crash
    \/ Exit
    \/ Tick

SpecCrash == Init /\ [][NextCrash]_vars

----------------------------------------------------------------------------
\* Reading the last invocation.

Has(seq, x) == \E i \in 1..Len(seq) : seq[i] = x

\* An invocation of main has ended and can be observed.
Ran == pc = "exited" /\ last.entry = "main" /\ ~last.killed

Cmd == IF Len(last.args) > 0 THEN lower(last.args[1]) ELSE ""

PreTasks == StoreTasks(last.pre)
PostTasks == StoreTasks(fs)

LastEnv == [renameOk |-> last.renameOk, now |-> last.now, now2 |-> last.now2]

Observed == [fs |-> fs, io |-> last.io, out |-> last.out, err |-> last.err,
             exit |-> last.exit]

Saved == Has(last.io, "open-tmp") \/ Has(last.io, "write") \/ Has(last.io, "replace")

Commands == {"add", "update", "delete", "mark", "list", "details"}

\* The id argument is an integer and no task of the store has it.
IdArgMissing ==
    /\ Len(last.args) >= 2
    /\ last.args[2] \in IntTokens
    /\ find_task(PreTasks, int(last.args[2])) = 0

IdArgFound ==
    /\ Len(last.args) >= 2
    /\ last.args[2] \in IntTokens
    /\ find_task(PreTasks, int(last.args[2])) # 0

NonList(file) == file.exists /\ json_load(file.text).ok /\ ~json_load(file.text).isList

----------------------------------------------------------------------------
\* C1: the first add assigns id 1, every later add assigns an id greater than
\* every id assigned before it, and no id is assigned twice, also when the
\* task that held it was deleted in between.
C1_IdsNeverReused ==
    /\ Len(assigned) > 0 => assigned[1] = 1
    /\ \A i, j \in 1..Len(assigned) : i < j => assigned[i] < assigned[j]

\* C2: update with the id of an existing task and a new title but no
\* description succeeds: title overwritten, description empty, updated_at
\* refreshed, the store saved, exit status 0.
C2_UpdateWithoutDescription ==
    (Ran /\ Cmd = "update" /\ Len(last.args) = 3 /\ IdArgFound) =>
        /\ last.exit = 0
        /\ Has(last.io, "replace")
        /\ Len(PostTasks) = Len(PreTasks)
        /\ LET t == PostTasks[find_task(PreTasks, int(last.args[2]))] IN
            /\ t.title = last.args[3]
            /\ t.description = ""
            /\ t.updated_at = last.now

\* What the command named by the first argument does, run on its own.
Handler(cmd, args, st, env) ==
    CASE cmd = "add" -> cmd_add(args, st, env)
      [] cmd = "update" -> cmd_update(args, st, env)
      [] cmd = "delete" -> cmd_delete(args, st, env)
      [] cmd = "mark" -> cmd_mark(args, st, env)
      [] cmd = "list" -> cmd_list(args, st, env)
      [] cmd = "details" -> cmd_details(args, st, env)

Dispatched ==
    IF Len(last.args) = 0
    THEN last.exit = 0 /\ last.out = <<Msg("help")>> /\ fs = last.pre
    ELSE IF Cmd \in Commands
         THEN Observed = Handler(Cmd, last.args, Start(last.pre), LastEnv)
    ELSE IF Cmd \in {"help", "-h", "--help"}
         THEN last.exit = 0 /\ last.out = <<Msg("help")>> /\ fs = last.pre
    ELSE /\ last.exit = 1
         /\ last.err = <<Msg("unknown-command")>>
         /\ last.out = <<Msg("help")>>
         /\ fs = last.pre

\* C3: running the program dispatches on the first argument, compared
\* case-insensitively: no argument prints help and exits 0, a command runs
\* its handler, help/-h/--help print help and exit 0, anything else prints
\* the unknown-command message and help and exits 1.
C3_RunDispatches == pc = "exited" => Dispatched

\* The same of main when it is called (the dispatch itself is as C3 says).
MainDispatches == Ran => Dispatched

\* C5: delete with an integer id that no task has exits 1 and leaves
\* tasks.json as it was, with no save, whatever the file held.
C5_DeleteMissingLeavesFile ==
    (Ran /\ Cmd = "delete" /\ IdArgMissing) =>
        /\ last.exit = 1
        /\ ~Saved
        /\ fs[db_path] = last.pre[db_path]

\* C5 as amended: delete with an integer id that no task has exits 1 and
\* saves nothing; tasks.json stays as it was unless it held malformed JSON,
\* which load_tasks renames to tasks.json.bak when the rename succeeds.
C5_DeleteMissing_Amended ==
    (Ran /\ Cmd = "delete" /\ IdArgMissing) =>
        /\ last.exit = 1
        /\ ~Saved
        /\ IF Malformed(last.pre[db_path]) /\ last.renameOk
           THEN fs = [last.pre EXCEPT ![db_path] = Absent, ![BAK] = last.pre[db_path]]
           ELSE fs = last.pre

C5_Witness ==
    /\ Ran /\ Cmd = "delete" /\ IdArgMissing
    /\ Len(PreTasks) > 0
    /\ last.exit = 1

\* The invocations that get as far as load_tasks: enough arguments, an
\* integer id where one is taken, a valid status or filter.
ReachesLoad ==
    LET a == last.args IN
    CASE Cmd = "add" -> Len(a) >= 2
      [] Cmd = "update" -> Len(a) >= 4 /\ a[2] \in IntTokens
      [] Cmd \in {"delete", "details"} -> Len(a) >= 2 /\ a[2] \in IntTokens
      [] Cmd = "mark" ->
            Len(a) >= 3 /\ a[2] \in IntTokens /\ lower(a[3]) \in VALID_STATUSES
      [] Cmd = "list" -> Len(a) >= 2 /\ lower(a[2]) \in VALID_STATUSES \cup {"all"}
      [] OTHER -> FALSE

\* C6: on a tasks.json of malformed JSON, any command renames the file to
\* tasks.json.bak (replacing a backup) and goes on as on an empty store; a
\* mutating command runs to completion and its save leaves a fresh
\* tasks.json holding only that command's result.
C6_CorruptAnyCommand ==
    (Ran /\ Malformed(last.pre[db_path]) /\ Cmd \in Commands) =>
        /\ fs[BAK] = last.pre[db_path]
        /\ Cmd \in {"add", "update", "delete", "mark"} =>
            /\ last.exit = 0
            /\ Has(last.io, "replace")
            /\ fs[db_path].exists /\ ~Malformed(fs[db_path])

\* C6 as amended: on a tasks.json of malformed JSON, an invocation that
\* reaches load_tasks renames the file to tasks.json.bak, replacing a
\* backup, unless the rename fails and the file stays; either way it then
\* ends as it would with no tasks.json: add saves a fresh tasks.json with
\* only the new task, of id 1, the others save nothing.  An invocation that
\* does not reach load_tasks leaves every file alone.
C6_Corrupt_Amended ==
    (Ran /\ Malformed(last.pre[db_path])) =>
        LET missing == [last.pre EXCEPT ![db_path] = Absent]
            r == main(<<Script>> \o last.args, Start(missing), LastEnv)
        IN IF ~ReachesLoad THEN fs = last.pre /\ last.io = <<>>
           ELSE /\ last.exit = r.exit /\ last.out = r.out
                /\ fs[TMP] = r.fs[TMP]
                /\ IF last.renameOk
                   THEN fs[BAK] = last.pre[db_path] /\ fs[db_path] = r.fs[db_path]
                   ELSE /\ fs[BAK] = last.pre[BAK]
                        /\ fs[db_path] = IF Cmd = "add" THEN r.fs[db_path]
                                         ELSE last.pre[db_path]
                /\ IF Cmd = "add"
                   THEN /\ last.exit = 0
                        /\ Len(PostTasks) = 1 /\ PostTasks[1].id = 1
                        /\ fs[db_path] = File(json_dump(PostTasks))
                   ELSE ~Saved

C6_Witness ==
    /\ Ran /\ Malformed(last.pre[db_path]) /\ last.pre[BAK].exists
    /\ Cmd = "add" /\ last.renameOk /\ last.exit = 0
    /\ fs[BAK] = last.pre[db_path] /\ fs[BAK] # last.pre[BAK]

\* The positional arguments each command requires.
Required(cmd) == IF cmd \in {"update", "mark"} THEN 2 ELSE 1

\* C7: add, update, delete, mark, list or details with fewer positional
\* arguments than required exits 1 with no file I/O: tasks.json is not
\* read, not renamed (also when malformed), not written.
C7_TooFewArgsNoIO ==
    (Ran /\ Cmd \in Commands /\ Len(last.args) - 1 < Required(Cmd)) =>
        /\ last.exit = 1
        /\ last.io = <<>>
        /\ fs = last.pre

C7_Witness ==
    /\ Ran /\ Cmd = "details" /\ Len(last.args) = 1
    /\ Malformed(last.pre[db_path])
    /\ last.exit = 1

\* C8: no two tasks of the store have the same id, in any state reached by
\* add, update, delete, mark, list and details from an empty store.
C8_UniqueIds ==
    LET post == PostTasks IN
    \A i, j \in 1..Len(post) : i # j => post[i].id # post[j].id

C8_Witness ==
    /\ Len(PostTasks) = 2
    /\ Len(assigned) = 3

\* C9: mark with a status that is not todo, in-progress or done (whatever
\* the case) exits 1 and leaves the task's status and updated_at and the
\* rest of the store unchanged.
C9_InvalidStatusNoChange ==
    (Ran /\ Cmd = "mark" /\ Len(last.args) >= 3
         /\ lower(last.args[3]) \notin VALID_STATUSES) =>
        /\ last.exit = 1
        /\ fs = last.pre

C9_Witness ==
    /\ Ran /\ Cmd = "mark" /\ Len(last.args) >= 3
    /\ lower(last.args[3]) \notin VALID_STATUSES
    /\ IdArgFound
    /\ last.exit = 1

\* C10: on a tasks.json of valid JSON that is not an array, load_tasks
\* returns the empty sequence and leaves the file alone: no rename, no
\* backup, no rewrite.
C10_NonListUntouched ==
    (Ran /\ NonList(last.pre[db_path]) /\ Has(last.io, "read")) =>
        LET l == load_tasks(Start(last.pre), LastEnv) IN
        /\ l.tasks = <<>>
        /\ l.st.fs = last.pre
        /\ ~Has(last.io, "rename")
        /\ fs[BAK] = last.pre[BAK]
        /\ ~Saved => fs = last.pre

C10_Witness ==
    /\ Ran /\ NonList(last.pre[db_path]) /\ Has(last.io, "read")
    /\ Cmd = "list" /\ last.out = <<Msg("no-tasks")>>
    /\ fs = last.pre

\* tasks.json is whole: absent, or the complete dump of a list of tasks.
Whole(file) ==
    \/ ~file.exists
    \/ LET d == json_load(file.text) IN
       d.ok /\ d.isList /\ json_dump(d.val) = file.text

\* C4: a process killed anywhere inside save_tasks (while tasks.json.tmp is
\* written, or after that and before the replace) leaves tasks.json with
\* the complete content it had when the save began; after a completed save
\* it holds exactly the new list; it never holds partial or mixed content.
C4_CrashSafe ==
    /\ InSave => fs[db_path] = pending.st.fs[db_path]
    /\ (pc = "exited" /\ last.killed) => fs[db_path] = pending.st.fs[db_path]
    /\ (pc = "exited" /\ Has(last.io, "replace")) =>
            fs[db_path] = File(json_dump(pending.tasks))
    /\ Whole(fs[db_path])

C4_Witness ==
    /\ pc = "exited" /\ last.killed
    /\ Malformed(fs[save_tmp(db_path)])
    /\ Len(fs[save_tmp(db_path)].text) > 1
    /\ Len(StoreTasks(fs)) > 0
    /\ StoreTasks(fs) # pending.tasks

----------------------------------------------------------------------------
\* Invocations that overlap in one directory.  Each process of Writers runs
\* one mutating invocation: it loads and computes (to the call of
\* save_tasks), opens tasks.json.tmp, writes it token by token, replaces
\* tasks.json by it.  A file is held open by inode: when its name is given
\* to another file or moves, the open file follows (POSIX).  A reader reads
\* tasks.json while a save is under way.

RaceArgs ==
    {<<"ADD", "a">>, <<"add", "b", "d">>, <<"mark", "1", "DONE">>, <<"Delete", "1">>}

\* A store of one task, as add "a" leaves it on an empty directory.
OneTask ==
    <<[id |-> 1, title |-> "a", description |-> "", status |-> "todo",
       created_at |-> 0, updated_at |-> 0]>>

RaceFiles == InitialFiles \cup {Files(File(json_dump(OneTask)), Absent)}

InitRace ==
    /\ fs \in RaceFiles
    /\ clock = 0
    /\ last = NoLast
    /\ assigned = <<>>
    /\ pc = "idle"
    /\ pending = NoPending
    /\ race = [NoRace EXCEPT !.seen = fs[db_path], !.base = fs[db_path]]

\* The bytes a write leaves unwritten when it lands beyond the end of a file.
Hole == [t |-> "nul"]

RECURSIVE Holes(_)
Holes(n) == IF n <= 0 THEN <<>> ELSE <<Hole>> \o Holes(n - 1)

\* f.write at offset k - 1 of a file: over what is there, or after a gap.
write_at(text, k, tok) ==
    IF k <= Len(text) THEN [text EXCEPT ![k] = tok]
    ELSE text \o Holes(k - 1 - Len(text)) \o <<tok>>

\* The name from is given to the path to: the file that was at to has no
\* name any more, the file that was at from is at to.
moved(at, from, to) ==
    IF at = Unlinked THEN Unlinked
    ELSE IF at = to THEN Unlinked
    ELSE IF at = from THEN to
    ELSE at

Follow(proc, from, to) ==
    [w \in Writers |-> [proc[w] EXCEPT !.at = moved(@, from, to)]]

\* The invocation of w runs to its call of save_tasks, or to its end.
WBegin(w) ==
    /\ race.proc[w].pc = "idle"
    /\ \E args \in RaceArgs, renameOk \in RenameChoices :
        LET env == [renameOk |-> renameOk, now |-> clock, now2 |-> clock] IN
        \E p \in {main_prepare(<<Script>> \o args, Start(fs), env)} :
           LET proc == IF Has(p.st.io, "rename")
                       THEN Follow(race.proc, db_path, BAK)
                       ELSE race.proc
               mine == [proc[w] EXCEPT !.pc = IF p.save THEN "open" ELSE "done",
                                       !.p = p, !.exit = p.st.exit]
           IN /\ Len(p.tasks) <= MaxTasks
              /\ fs' = p.st.fs
              /\ race' = [race EXCEPT !.proc = [proc EXCEPT ![w] = mine]]
    /\ UNCHANGED <<clock, last, assigned, pc, pending>>

\* tmp.open("w"): the file of that name is created, or truncated if there
\* is one; whoever has it open keeps it open.
WOpen(w) ==
    /\ race.proc[w].pc = "open"
    /\ fs' = save_open(Start(fs)).fs
    /\ race' = [race EXCEPT !.proc[w] =
                    [@ EXCEPT !.pc = "write", !.at = save_tmp(db_path), !.pos = 0]]
    /\ UNCHANGED <<clock, last, assigned, pc, pending>>

\* json.dump writes the next token at the offset of w's open file; after
\* the last one the file is closed.
WWrite(w) ==
    /\ race.proc[w].pc = "write"
    /\ LET me == race.proc[w]
           text == json_dump(me.p.tasks)
           k == me.pos + 1
           done == k = Len(text)
       IN /\ fs' = IF me.at = Unlinked THEN fs
                   ELSE [fs EXCEPT ![me.at] = File(write_at(@.text, k, text[k]))]
          /\ race' = [race EXCEPT !.proc[w] =
                          [@ EXCEPT !.pos = k,
                                    !.pc = IF done THEN "replace" ELSE "write",
                                    !.at = IF done THEN Unlinked ELSE @]]
    /\ UNCHANGED <<clock, last, assigned, pc, pending>>

\* os.replace(tmp, path): FileNotFoundError when another process has
\* already moved tasks.json.tmp away, and the invocation ends there.
WReplace(w) ==
    /\ race.proc[w].pc = "replace"
    /\ LET tmp == save_tmp(db_path) IN
       IF fs[tmp].exists
       THEN /\ fs' = save_replace(Start(fs)).fs
            /\ race' = [race EXCEPT
                           !.proc = [Follow(@, tmp, db_path) EXCEPT ![w].pc = "done"],
                           !.replaced = Append(@, w)]
       ELSE /\ fs' = fs
            /\ race' = [race EXCEPT !.proc[w] = [@ EXCEPT !.pc = "done", !.exit = 1]]
    /\ UNCHANGED <<clock, last, assigned, pc, pending>>

\* Some invocation is inside save_tasks.
Saving == \E w \in Writers : race.proc[w].pc \in {"open", "write", "replace"}

\* A reader reads tasks.json while a save is under way.
Read ==
    /\ Saving
    /\ race' = [race EXCEPT !.seen = fs[db_path]]
    /\ UNCHANGED <<fs, clock, last, assigned, pc, pending>>

NextRace ==
    \/ \E w \in Writers : WBegin(w)
    \/ \E w \in Writers : WOpen(w)
    \/ \E w \in Writers : WWrite(w)
    \/ \E w \in Writers : WReplace(w)
    \/ Read

SpecRace == InitRace /\ [][NextRace]_vars

\* The lists that a save wrote or is writing.
SavedLists == {race.proc[w].p.tasks : w \in {v \in Writers : race.proc[v].p.save}}

\* C14: a reader of tasks.json, at any moment while invocations are in
\* save_tasks, sees the complete file from before the saves or the complete
\* list written by one of them, never a partly written file.
C14_ReaderSeesWhole ==
    \/ race.seen = race.base
    \/ \E tasks \in SavedLists : race.seen = File(json_dump(tasks))

\* The same with one invocation at a time in save_tasks (the other process
\* has not started): this holds.
OneWriterReaderSeesWhole ==
    (\E w \in Writers : race.proc[w].pc = "idle") => C14_ReaderSeesWhole

\* Both invocations went into save_tasks and both have ended.
BothSaved ==
    \A w \in Writers : race.proc[w].pc = "done" /\ race.proc[w].p.save

\* The process whose os.replace was the last to move tasks.json.tmp.
LastWriter == race.replaced[Len(race.replaced)]

\* C16: when two mutating invocations overlap, whatever the order of their
\* load and save steps, the tasks.json left when both have ended is the
\* complete list computed by the one whose replace was executed last.
C16_LastWriterWins ==
    BothSaved =>
        /\ Len(race.replaced) > 0
        /\ fs[db_path] = File(json_dump(race.proc[LastWriter].p.tasks))

\* The same when both replaces found a tasks.json.tmp to move, that is when
\* neither invocation opened the temporary file the other was writing.  This
\* holds.
LastWriterWinsApart ==
    (BothSaved /\ Len(race.replaced) = 2) =>
        fs[db_path] = File(json_dump(race.proc[LastWriter].p.tasks))

----------------------------------------------------------------------------
\* Reading what list printed.

\* The tasks of the task lines printed, in the order printed.
ShownTasks ==
    LET IsTask(m) == m.msg = "task"
        lines == SelectSeq(last.out, IsTask)
    IN [i \in 1..Len(lines) |-> lines[i].task]

Count(seq, x) == Cardinality({i \in 1..Len(seq) : seq[i] = x})

Filter == lower(last.args[2])

\* A list invocation that got past its checks.
Listed ==
    /\ Ran /\ Cmd = "list" /\ Len(last.args) >= 2
    /\ Filter \in VALID_STATUSES \cup {"all"}

\* C11: list all prints as many tasks as the store holds, list with a status
\* prints exactly the tasks of that status, each once; the lines are in
\* ascending order of (status, id); list does not modify the task list.
C11_ListOutput ==
    Listed =>
        LET pre == PreTasks
            shown == ShownTasks
        IN /\ last.exit = 0
           /\ Filter = "all" => Len(shown) = Len(pre)
           /\ \A i \in 1..Len(pre) :
                 Count(shown, pre[i]) =
                     IF Filter = "all" \/ pre[i].status = Filter THEN 1 ELSE 0
           /\ \A j \in 1..Len(shown) : Has(pre, shown[j])
           /\ \A i, j \in 1..Len(shown) :
                 i < j =>
                    \/ StatusRank(shown[i].status) < StatusRank(shown[j].status)
                    \/ /\ shown[i].status = shown[j].status
                       /\ shown[i].id < shown[j].id
           /\ PostTasks = pre
           /\ ~Saved

C11_Witness ==
    /\ Listed /\ Filter = "all"
    /\ Len(PreTasks) = 2
    /\ PreTasks[1].status = "todo" /\ PreTasks[2].status = "done"
    /\ ShownTasks = <<PreTasks[2], PreTasks[1]>>

\* The position in the store of the task the id argument names, before the
\* invocation.
Target == find_task(PreTasks, int(last.args[2]))

\* A successful invocation of cmd on an existing task.
Succeeded(cmd) == Ran /\ Cmd = cmd /\ last.exit = 0 /\ Saved

\* C12: a task's created_at is the time add created it at, and no later
\* invocation changes it: whatever the invocation, a task that is in the
\* store before and after it has the same created_at.
C12_CreatedAtKept ==
    Ran =>
        LET pre == PreTasks
            post == PostTasks
        IN /\ \A i \in 1..Len(pre), j \in 1..Len(post) :
                 pre[i].id = post[j].id => post[j].created_at = pre[i].created_at
           /\ Succeeded("add") => post[Len(post)].created_at = last.now
           /\ Cmd \in {"update", "mark", "list", "details"} =>
                 /\ Len(post) = Len(pre)
                 /\ \A i \in 1..Len(pre) : post[i].id = pre[i].id

C12_Witness ==
    /\ Succeeded("update")
    /\ PreTasks[Target].created_at = 0
    /\ last.now = 1
    /\ PostTasks[Target].created_at = 0
    /\ PostTasks[Target].updated_at = 1

\* C13: a successful update or mark sets the updated_at of its task to the
\* time of the invocation; an invocation that fails (usage, validation or
\* not-found error) changes no task's updated_at.
C13_UpdatedAtRefreshed ==
    LET pre == PreTasks
        post == PostTasks
    IN /\ (Succeeded("update") \/ Succeeded("mark")) =>
             post[Target].updated_at = last.now
       /\ (Ran /\ last.exit # 0) =>
             /\ Len(post) = Len(pre)
             /\ \A i \in 1..Len(pre) : post[i].updated_at = pre[i].updated_at

C13_Witness ==
    /\ Succeeded("mark")
    /\ PreTasks[Target].updated_at = 0
    /\ last.now = 1
    /\ PostTasks[Target].updated_at = 1

\* C15: in every state reached from an empty or missing store, the status
\* of each stored task is todo, in-progress or done: add stores todo, mark
\* stores the lowercased form of a valid status and rejects anything else.
C15_StatusValid ==
    LET post == PostTasks IN
    \A i \in 1..Len(post) : post[i].status \in VALID_STATUSES

C15_Witness ==
    /\ Succeeded("mark")
    /\ last.args[3] = "DONE"
    /\ PreTasks[Target].status = "todo"
    /\ PostTasks[Target].status = "done"

\* The task a successful add has put in the store.
NewTask == PostTasks[Len(PostTasks)]

\* add appends: the tasks that were there are there, in place, before it.
Appended ==
    /\ Len(PostTasks) = Len(PreTasks) + 1
    /\ SubSeq(PostTasks, 1, Len(PreTasks)) = PreTasks

\* C17: a task created by add is appended at the end of the stored list
\* with status todo and with created_at equal to updated_at, both the time
\* of the add invocation.
C17_AddAppendsTodoNow ==
    Succeeded("add") =>
        /\ Appended
        /\ NewTask.status = "todo"
        /\ NewTask.created_at = NewTask.updated_at
        /\ NewTask.created_at = last.now

\* What add does do: the two timestamps are two readings of the clock.
AddAppendsTodoTwoReadings ==
    Succeeded("add") =>
        /\ Appended
        /\ NewTask.status = "todo"
        /\ NewTask.created_at = last.now
        /\ NewTask.updated_at = last.now2

\* The id the invocation names.
Tid == int(last.args[2])

\* s without its k-th element.
Without(s, k) == SubSeq(s, 1, k - 1) \o SubSeq(s, k + 1, Len(s))

\* The tasks other than the k-th are as they were, where they were.
OthersKept(pre, post, k) ==
    /\ Len(post) = Len(pre)
    /\ \A i \in 1..Len(pre) : i # k => post[i] = pre[i]

\* C18: a successful delete removes exactly the task of the given id; a
\* successful update changes only title, description and updated_at of the
\* task of the given id, a successful mark only its status and updated_at;
\* every other task keeps its fields and the order of the list is kept.
C18_FrameEffects ==
    LET pre == PreTasks
        post == PostTasks
    IN /\ Succeeded("delete") =>
             \E k \in 1..Len(pre) :
                /\ pre[k].id = Tid
                /\ post = Without(pre, k)
       /\ Succeeded("update") =>
             \E k \in 1..Len(pre) :
                /\ pre[k].id = Tid
                /\ OthersKept(pre, post, k)
                /\ post[k] = [pre[k] EXCEPT !.title = post[k].title,
                                            !.description = post[k].description,
                                            !.updated_at = post[k].updated_at]
       /\ Succeeded("mark") =>
             \E k \in 1..Len(pre) :
                /\ pre[k].id = Tid
                /\ OthersKept(pre, post, k)
                /\ post[k] = [pre[k] EXCEPT !.status = post[k].status,
                                            !.updated_at = post[k].updated_at]

C18_Witness ==
    /\ Succeeded("mark")
    /\ Len(PreTasks) = 2
    /\ PreTasks[2].id = Tid
    /\ PostTasks[1] = PreTasks[1]
    /\ PostTasks[2].status # PreTasks[2].status

\* C19: when tasks.json holds valid JSON that is not an array, a successful
\* add replaces the file by a list holding only the new task, of id 1, and
\* no copy of the original content is left: nothing is renamed, no backup
\* is made.
C19_NonListAddReplaces ==
    (Succeeded("add") /\ NonList(last.pre[db_path])) =>
        /\ PostTasks = <<NewTask>>
        /\ NewTask.id = 1
        /\ fs[db_path] = File(json_dump(<<NewTask>>))
        /\ ~Has(last.io, "rename")
        /\ fs[BAK] = last.pre[BAK]
        /\ \A path \in Paths : fs[path] # last.pre[db_path]

C19_Witness ==
    /\ Succeeded("add") /\ NonList(last.pre[db_path])
    /\ Len(PostTasks) = 1 /\ NewTask.id = 1
    /\ ~fs[BAK].exists

====
